---- MODULE Spec2Model ----
(***************************************************************************)
(* spyglass: scoped timers that hand their Timing to a process-wide        *)
(* collector.  Three guard implementations appear in the repository:      *)
(*   "example"  examples/my_timer.rs  (name: String, end clones, Drop      *)
(*              spawns a thread that calls Timer::queue)                   *)
(*   "doc"      the crate documentation example in src/lib.rs (name:       *)
(*              Option<String>, end does take().unwrap(), Drop spawns)     *)
(*   "channel"  src/main.rs (name: Option<String>, end does take(), Drop   *)
(*              sends over an mpsc channel, main receives)                 *)
(* A run uses one of them (chosen in Init).  The main thread creates       *)
(* guards in its scope, drops them innermost first, and then reads the     *)
(* collector; every other guard lives in a measured thread of its own.     *)
(* When fn main returns the process exits and every other thread stops.    *)
(***************************************************************************)
EXTENDS Integers, Sequences, FiniteSets, TLC

\* ----- bounds of the model
NGuards == 2    \* guards created in one run
MaxLocks == 2   \* lock-and-iterate rounds of the reading side
MaxEnds == 1    \* explicit calls of end() in one run
MaxTime == 2    \* the latest instant the clock reaches in a timed run

Impls == {"example", "doc", "channel"}
Owners == {"main", "worker"}

\* Option<T>
None == <<>>
Some(x) == <<x>>

\* the labels the two programs give their guards
ExampleNames == <<"maggie", "milly", "molly", "may">>
ChannelNames == <<"thread 1", "thread 2", "thread 3", "thread 4">>

VARIABLES
    impl,       \* which guard implementation this run uses
    now,        \* the latest value Instant::now() returned
    guards,     \* the guards created so far, by id
    scope,      \* the main thread's live guards, innermost last
    pc,         \* where the main thread is
    tasks,      \* the threads spawned by Drop, each inside Timer::queue
    locked,     \* Timer.queue: the mutex is held
    poisoned,   \* Timer.queue: the mutex's poison flag
    queue,      \* Timer.queue: the Vec<Timing> behind the mutex
    chan,       \* GLOBAL_TIMER channel: Timings sent and not yet received
    received,   \* the Timings main.rs's loop has received and printed
    stderr,     \* what eprintln! has written
    exited,     \* the process has ended
    rounds,     \* history: lock-and-iterate rounds started
    endCalls,   \* history: explicit calls of end() so far
    log,        \* history: Timings whose Timer::queue pushed, in order
    atGrant,    \* history: log when the Timer::lock the reader holds returned
    lastRead    \* history: what the latest iteration over the locked queue saw

vars == <<impl, now, guards, scope, pc, tasks, locked, poisoned, queue, chan,
          received, stderr, exited, rounds, endCalls, log, atGrant, lastRead>>

GuardIds == 1..Len(guards)
TaskIds == 1..Len(tasks)

Top == scope[Len(scope)]
Pop == SubSeq(scope, 1, Len(scope) - 1)

\* the name the program passes to new for its next guard
NameArg ==
    LET names == IF impl = "channel" THEN ChannelNames ELSE ExampleNames
    IN  names[(Len(guards) % Len(names)) + 1]

Init ==
    /\ impl \in Impls
    /\ now = 0
    /\ guards = <<>>
    /\ scope = <<>>
    /\ pc = "run"
    /\ tasks = <<>>
    /\ locked = FALSE
    /\ poisoned = FALSE
    /\ queue = <<>>
    /\ chan = <<>>
    /\ received = <<>>
    /\ stderr = <<>>
    /\ exited = FALSE
    /\ rounds = 0
    /\ endCalls = 0
    /\ log = <<>>
    /\ atGrant = None
    /\ lastRead = None

\* the thread that owns guard g is running and g is what its scope drops next
Running(o) == ~exited /\ (o = "main" => pc = "run")
Droppable(g) ==
    /\ g \in GuardIds /\ guards[g].st = "live"
    /\ guards[g].owner = "main" => (scope # <<>> /\ g = Top)

\* ----- guards: construction
\* MyTimer::new (examples/my_timer.rs and the doc example), Timer::new (main.rs);
\* `at` is what Instant::now() returns, never before an earlier reading;
\* the run creates at most n guards
Guard_new(o, at, n) ==
    /\ Running(o)
    /\ Len(guards) < n
    /\ now' = at
    /\ guards' = Append(guards,
                    [st |-> "live", owner |-> o,
                     name |-> IF impl = "example" THEN NameArg ELSE Some(NameArg),
                     given |-> NameArg, begin |-> at, ends |-> 0,
                     slept |-> 0, fin |-> 0, finAt |-> 0])
    /\ scope' = IF o = "main" THEN Append(scope, Len(guards) + 1) ELSE scope
    /\ UNCHANGED <<impl, pc, tasks, locked, poisoned, queue, chan, received,
                   stderr, exited, rounds, endCalls, log, atGrant, lastRead>>

\* a thread spends time: std::thread::sleep(d) returns after d or more, e on
\* the clock.  g is a live guard of the sleeping thread (main's scope holds
\* all of main's live guards), or 0 for a thread that measures nothing just now
Sleep(g, d, e) ==
    /\ ~exited
    /\ g = 0 \/ (g \in GuardIds /\ guards[g].st = "live" /\ Running(guards[g].owner))
    /\ d >= 0 /\ e >= d /\ e >= 1 /\ now + e <= MaxTime
    /\ now' = now + e
    /\ guards' = [h \in GuardIds |->
                    IF /\ g # 0 /\ guards[h].st = "live"
                       /\ (h = g \/ (guards[h].owner = "main" /\ guards[g].owner = "main"))
                    THEN [guards[h] EXCEPT !.slept = @ + d]
                    ELSE guards[h]]
    /\ UNCHANGED <<impl, scope, pc, tasks, locked, poisoned, queue, chan, received,
                   stderr, exited, rounds, endCalls, log, atGrant, lastRead>>

\* ----- guards: finalization
\* an end that subtracts the wrong way round: self.begin - Instant::now()
MyTimer_end_swapped(g, at) ==
    [name |-> guards[g].name, begin |-> guards[g].begin,
     duration |-> guards[g].begin - at, id |-> g]

\* MyTimer::end, examples/my_timer.rs: the name is cloned, the guard keeps it
MyTimer_end(g, at) ==
    [name |-> guards[g].name, begin |-> guards[g].begin,
     duration |-> at - guards[g].begin, id |-> g]

\* MyTimer::end, doc example: name.take().unwrap(); defined when the name is there
DocTimer_end(g, at) ==
    [name |-> guards[g].name[1], begin |-> guards[g].begin,
     duration |-> at - guards[g].begin, id |-> g]

\* Timer::end, main.rs: the Timing carries the Option that take() returned
Timer_end(g, at) ==
    [name |-> guards[g].name, duration |-> at - guards[g].begin, id |-> g]

\* Option::take on the guard's name
Taken(g, state) == [guards EXCEPT ![g].name = None, ![g].ends = @ + 1, ![g].st = state]

\* history: g is the n-th guard of the run whose Drop ran, at instant `at`
Drops == Cardinality({g \in GuardIds : guards[g].st # "live"})
Finalize(gs, g, at) == [gs EXCEPT ![g].fin = Drops + 1, ![g].finAt = at]

\* history: the n-th Timer::queue call of the run whose lock() returned
Grants == Cardinality({i \in TaskIds : tasks[i].grant > 0})

\* a Drop that hands its Timing over twice
Spawn_twice(timing) ==
    Append(Append(tasks, [st |-> "spawned", timing |-> timing, grant |-> 0]),
           [st |-> "spawned", timing |-> timing, grant |-> 0])

\* std::thread::spawn(move || GLOBAL_TIMER.queue(end))
Spawn(timing) == Append(tasks, [st |-> "spawned", timing |-> timing, grant |-> 0])

\* a caller invokes end() on a live guard and discards the Timing it returns.
\* (my_timer.rs's end clones the name and leaves the guard as it was: such a
\* call changes nothing and is no step of the model.)
\* doc example: on a name already taken unwrap panics; the guard is still in
\* scope, so its Drop panics again while the thread unwinds and the process aborts
DocTimer_end_call(g, at) ==
    /\ impl = "doc"
    /\ g \in GuardIds /\ guards[g].st = "live" /\ Running(guards[g].owner)
    /\ endCalls < MaxEnds
    /\ endCalls' = endCalls + 1
    /\ IF guards[g].name = None
       THEN /\ guards' = [guards EXCEPT ![g].ends = @ + 1, ![g].st = "panicked"]
            /\ exited' = TRUE
            /\ now' = now
       ELSE /\ guards' = Taken(g, "live")
            /\ exited' = exited
            /\ now' = at
    /\ UNCHANGED <<impl, scope, pc, tasks, locked, poisoned, queue, chan,
                   received, stderr, rounds, log, atGrant, lastRead>>

Timer_end_call(g, at) ==
    /\ impl = "channel"
    /\ g \in GuardIds /\ guards[g].st = "live" /\ Running(guards[g].owner)
    /\ endCalls < MaxEnds
    /\ endCalls' = endCalls + 1
    /\ now' = at
    /\ guards' = Taken(g, "live")
    /\ UNCHANGED <<impl, scope, pc, tasks, locked, poisoned, queue, chan,
                   received, stderr, exited, rounds, log, atGrant, lastRead>>

\* the scope of g's thread loses g
Dropped(g) == IF guards[g].owner = "main" THEN Pop ELSE scope

\* a Drop that calls Timer::queue itself instead of spawning: it waits for the mutex
MyTimer_drop_inline(g, at) ==
    /\ impl = "example"
    /\ Droppable(g) /\ Running(guards[g].owner)
    /\ ~locked
    /\ now' = at
    /\ guards' = Finalize([guards EXCEPT ![g].ends = @ + 1, ![g].st = "dropped"], g, at)
    /\ tasks' = Append(tasks, [st |-> IF poisoned THEN "Err" ELSE "Ok",
                               timing |-> MyTimer_end(g, at), grant |-> Grants + 1])
    /\ locked' = TRUE
    /\ scope' = Dropped(g)
    /\ UNCHANGED <<impl, pc, poisoned, queue, chan, received,
                   stderr, exited, rounds, endCalls, log, atGrant, lastRead>>

\* impl Drop for MyTimer, examples/my_timer.rs: end, then spawn the delivery
MyTimer_drop(g, at) ==
    /\ impl = "example"
    /\ Droppable(g) /\ Running(guards[g].owner)
    /\ now' = at
    /\ guards' = Finalize([guards EXCEPT ![g].ends = @ + 1, ![g].st = "dropped"], g, at)
    /\ tasks' = Spawn(MyTimer_end(g, at))
    /\ scope' = Dropped(g)
    /\ UNCHANGED <<impl, pc, locked, poisoned, queue, chan, received,
                   stderr, exited, rounds, endCalls, log, atGrant, lastRead>>

\* impl Drop for MyTimer, doc example: end panics when the name was taken and
\* nothing is spawned; the panicking thread unwinds (the main thread drops the
\* rest of its scope first), and a second panic while unwinding aborts the process
DocTimer_drop(g, at) ==
    /\ impl = "doc"
    /\ Droppable(g)
    /\ ~exited /\ (guards[g].owner = "main" => pc \in {"run", "unwinding"})
    /\ scope' = Dropped(g)
    /\ IF guards[g].name = None
       THEN /\ guards' = Finalize([guards EXCEPT ![g].ends = @ + 1, ![g].st = "panicked"], g, now)
            /\ tasks' = tasks
            /\ pc' = IF guards[g].owner = "main" THEN "unwinding" ELSE pc
            /\ exited' = (guards[g].owner = "main" /\ pc = "unwinding")
            /\ now' = now
       ELSE /\ guards' = Finalize(Taken(g, "dropped"), g, at)
            /\ tasks' = Spawn(DocTimer_end(g, at))
            /\ pc' = pc
            /\ exited' = exited
            /\ now' = at
    /\ UNCHANGED <<impl, locked, poisoned, queue, chan, received,
                   stderr, rounds, endCalls, log, atGrant, lastRead>>

\* ----- the channel of main.rs: GLOBAL_TIMER owns the Sender and the Receiver,
\* and a lazy_static value is never dropped, not even when the process ends
\* a GlobalTimer that gave its Receiver away: the consumer side is gone
Receiver_gone == FALSE

Receiver_alive == TRUE

\* a GlobalTimer that keeps no Sender of its own: once the guards' clones are
\* dropped every Sender is gone
Sender_gone == FALSE

Sender_alive == TRUE

\* Sender::send never blocks (the channel is unbounded); it returns Err(SendError(t))
\* when the Receiver was dropped, Ok(()) otherwise
Sender_send == IF Receiver_alive THEN "Ok" ELSE "Err"

\* impl Drop for Timer, main.rs: send(self.end()) on a clone of the global Sender;
\* `Err(_) => eprintln!("couldn't drop {:?}", self.name)` prints the name that
\* end() left behind, the Timing goes with the SendError
Timer_drop(g, at) ==
    /\ impl = "channel"
    /\ Droppable(g) /\ Running(guards[g].owner)
    /\ now' = at
    /\ guards' = Finalize(Taken(g, "dropped"), g, at)
    /\ IF Sender_send = "Ok"
       THEN /\ chan' = Append(chan, Timer_end(g, at))
            /\ stderr' = stderr
       ELSE /\ chan' = chan
            /\ stderr' = Append(stderr, [msg |-> "couldn't drop", name |-> None])
    /\ scope' = Dropped(g)
    /\ UNCHANGED <<impl, pc, tasks, locked, poisoned, queue, received,
                   exited, rounds, endCalls, log, atGrant, lastRead>>

\* fn main returns, or its unwinding ends: the process exits.
\* main.rs's main never returns: it enters its receive loop (Main_loop).
Main_return ==
    /\ ~exited /\ pc \in {"run", "unwinding"}
    /\ scope = <<>>
    /\ ~(impl = "channel" /\ pc = "run")
    /\ pc' = IF pc = "run" THEN "done" ELSE "panicked"
    /\ exited' = TRUE
    /\ UNCHANGED <<impl, now, guards, scope, tasks, locked, poisoned, queue, chan,
                   received, stderr, rounds, endCalls, log, atGrant, lastRead>>

\* main.rs main: the scope is over, `while let Ok(timing) = ...recv()` begins
Main_loop ==
    /\ ~exited /\ impl = "channel" /\ pc = "run"
    /\ scope = <<>>
    /\ pc' = "recv"
    /\ UNCHANGED <<impl, now, guards, scope, tasks, locked, poisoned, queue, chan,
                   received, stderr, exited, rounds, endCalls, log, atGrant, lastRead>>

\* a loop that takes the newest Timing first
Main_recv_newest ==
    /\ ~exited /\ pc = "recv"
    /\ chan # <<>>
    /\ received' = Append(received, chan[Len(chan)])
    /\ chan' = SubSeq(chan, 1, Len(chan) - 1)
    /\ UNCHANGED <<impl, now, guards, scope, pc, tasks, locked, poisoned, queue,
                   stderr, exited, rounds, endCalls, log, atGrant, lastRead>>

\* one iteration of main.rs's loop: recv returns the oldest Timing; on an empty
\* channel it blocks while a Sender exists and returns Err once none does,
\* which ends the loop and main
Main_recv ==
    /\ ~exited /\ pc = "recv"
    /\ IF chan # <<>>
       THEN /\ received' = Append(received, Head(chan))
            /\ chan' = Tail(chan)
            /\ pc' = pc
            /\ exited' = exited
       ELSE /\ ~Sender_alive
            /\ received' = received
            /\ chan' = chan
            /\ pc' = "done"
            /\ exited' = TRUE
    /\ UNCHANGED <<impl, now, guards, scope, tasks, locked, poisoned, queue,
                   stderr, rounds, endCalls, log, atGrant, lastRead>>

\* ----- the collector: Timer { queue: Mutex<Vec<Timing>> }
\* a lock that excludes nobody
Timer_lock_unguarded == TRUE

\* Timer::lock, self.queue.lock(): returns once the mutex is free ...
Timer_lock_ready == ~locked

\* a lock that forgets the poison: lock().unwrap_or_else(|e| e.into_inner())
Timer_lock_recovered == "Ok"

\* ... with Err(PoisonError(guard)) when the mutex is poisoned, Ok(guard) otherwise;
\* in both cases the caller now holds the mutex
Timer_lock_result == IF poisoned THEN "Err" ELSE "Ok"

\* Timer::queue, `match self.lock()`: the spawned thread acquires the mutex
Timer_queue_lock(i) ==
    /\ ~exited
    /\ i \in TaskIds /\ tasks[i].st = "spawned"
    /\ Timer_lock_ready
    /\ locked' = TRUE
    /\ tasks' = [tasks EXCEPT ![i].st = Timer_lock_result, ![i].grant = Grants + 1]
    /\ UNCHANGED <<impl, now, guards, scope, pc, poisoned, queue, chan, received,
                   stderr, exited, rounds, endCalls, log, atGrant, lastRead>>

\* a queue that loses what was collected before: the Timing replaces the Vec
Timer_queue_push_replace(i) ==
    /\ ~exited
    /\ i \in TaskIds /\ tasks[i].st = "Ok"
    /\ queue' = <<tasks[i].timing>>
    /\ log' = Append(log, tasks[i].timing)
    /\ locked' = FALSE
    /\ tasks' = [tasks EXCEPT ![i].st = "returned"]
    /\ UNCHANGED <<impl, now, guards, scope, pc, poisoned, chan, received,
                   stderr, exited, rounds, endCalls, atGrant, lastRead>>

\* a queue that keeps the mutex: the guard is leaked (mem::forget) after the push
Timer_queue_push_leak(i) ==
    /\ ~exited
    /\ i \in TaskIds /\ tasks[i].st = "Ok"
    /\ queue' = Append(queue, tasks[i].timing)
    /\ log' = Append(log, tasks[i].timing)
    /\ tasks' = [tasks EXCEPT ![i].st = "leaked"]
    /\ UNCHANGED <<impl, now, guards, scope, pc, locked, poisoned, chan, received,
                   stderr, exited, rounds, endCalls, atGrant, lastRead>>

\* a queue that stores the newest Timing first: queue.insert(0, timing)
Timer_queue_push_front(i) ==
    /\ ~exited
    /\ i \in TaskIds /\ tasks[i].st = "Ok"
    /\ queue' = <<tasks[i].timing>> \o queue
    /\ log' = Append(log, tasks[i].timing)
    /\ locked' = FALSE
    /\ tasks' = [tasks EXCEPT ![i].st = "returned"]
    /\ UNCHANGED <<impl, now, guards, scope, pc, poisoned, chan, received,
                   stderr, exited, rounds, endCalls, atGrant, lastRead>>

\* Timer::queue, `Ok(mut queue) => queue.push(timing)`; the guard is dropped at
\* the end of the arm and the thread ends
Timer_queue_push(i) ==
    /\ ~exited
    /\ i \in TaskIds /\ tasks[i].st = "Ok"
    /\ queue' = Append(queue, tasks[i].timing)
    /\ log' = Append(log, tasks[i].timing)
    /\ locked' = FALSE
    /\ tasks' = [tasks EXCEPT ![i].st = "returned"]
    /\ UNCHANGED <<impl, now, guards, scope, pc, poisoned, chan, received,
                   stderr, exited, rounds, endCalls, atGrant, lastRead>>

\* a queue that ignores the poison: e.into_inner().push(timing)
Timer_queue_report_push(i) ==
    /\ ~exited
    /\ i \in TaskIds /\ tasks[i].st = "Err"
    /\ queue' = Append(queue, tasks[i].timing)
    /\ log' = Append(log, tasks[i].timing)
    /\ locked' = FALSE
    /\ tasks' = [tasks EXCEPT ![i].st = "returned"]
    /\ UNCHANGED <<impl, now, guards, scope, pc, poisoned, chan, received,
                   stderr, exited, rounds, endCalls, atGrant, lastRead>>

\* a queue whose error arm keeps the guard: std::mem::forget(e) after the message
Timer_queue_report_leak(i) ==
    /\ ~exited
    /\ i \in TaskIds /\ tasks[i].st = "Err"
    /\ stderr' = Append(stderr, [msg |-> "couldn't queue", name |-> tasks[i].timing.name])
    /\ tasks' = [tasks EXCEPT ![i].st = "returned"]
    /\ UNCHANGED <<impl, now, guards, scope, pc, locked, poisoned, queue, chan, received,
                   exited, rounds, endCalls, log, atGrant, lastRead>>

\* Timer::queue, `Err(e) => eprintln!("couldn't queue \"{}\": {}", timing.name, e)`;
\* e holds the guard, which is dropped at the end of the arm
Timer_queue_report(i) ==
    /\ ~exited
    /\ i \in TaskIds /\ tasks[i].st = "Err"
    /\ stderr' = Append(stderr, [msg |-> "couldn't queue", name |-> tasks[i].timing.name])
    /\ locked' = FALSE
    /\ tasks' = [tasks EXCEPT ![i].st = "returned"]
    /\ UNCHANGED <<impl, now, guards, scope, pc, poisoned, queue, chan, received,
                   exited, rounds, endCalls, log, atGrant, lastRead>>

\* ----- the reading side, examples/my_timer.rs main
\* after main's scopes closed: std::thread::sleep(Duration::from_micros(1)),
\* which synchronizes with nothing, then `match GLOBAL_TIMER.lock()`
Reader_lock ==
    /\ ~exited /\ impl # "channel" /\ pc = "run"
    /\ scope = <<>>
    /\ rounds < MaxLocks
    /\ rounds' = rounds + 1
    /\ Timer_lock_ready
    /\ locked' = TRUE
    /\ pc' = IF Timer_lock_result = "Ok" THEN "reading" ELSE "lockerr"
    /\ atGrant' = Some(log)
    /\ UNCHANGED <<impl, now, guards, scope, tasks, poisoned, queue, chan, received,
                   stderr, exited, endCalls, log, lastRead>>

\* a consuming drain: queue.drain(..) instead of queue.iter()
Reader_iterate_drain ==
    /\ ~exited /\ pc = "reading"
    /\ lastRead' = Some([view |-> queue, pushes |-> Len(log)])
    /\ queue' = <<>>
    /\ locked' = FALSE
    /\ pc' = "run"
    /\ atGrant' = None
    /\ UNCHANGED <<impl, now, guards, scope, tasks, poisoned, chan, received,
                   stderr, exited, rounds, endCalls, log>>

\* `Ok(queue) => for timing in queue.iter() { println!(...) }`, then the guard is dropped
Reader_iterate ==
    /\ ~exited /\ pc = "reading"
    /\ lastRead' = Some([view |-> queue, pushes |-> Len(log)])
    /\ locked' = FALSE
    /\ pc' = "run"
    /\ atGrant' = None
    /\ UNCHANGED <<impl, now, guards, scope, tasks, poisoned, queue, chan, received,
                   stderr, exited, rounds, endCalls, log>>

\* the holder of the guard panics (println! panics when stdout cannot be written):
\* unwinding drops the guard, which poisons the mutex
Reader_panic ==
    /\ ~exited /\ pc = "reading"
    /\ locked' = FALSE
    /\ poisoned' = TRUE
    /\ pc' = "unwinding"
    /\ atGrant' = None
    /\ UNCHANGED <<impl, now, guards, scope, tasks, queue, chan, received,
                   stderr, exited, rounds, endCalls, log, lastRead>>

\* another thread of the process took the guard with Timer::lock and panicked
\* while holding it: the mutex is free again and poisoned
Holder_panic ==
    /\ ~exited /\ impl # "channel"
    /\ Timer_lock_ready /\ ~poisoned
    /\ poisoned' = TRUE
    /\ UNCHANGED <<impl, now, guards, scope, pc, tasks, locked, queue, chan, received,
                   stderr, exited, rounds, endCalls, log, atGrant, lastRead>>

\* a reader that unwraps the result of lock(): the PoisonError panics
Reader_report_unwrap ==
    /\ ~exited /\ pc = "lockerr"
    /\ locked' = FALSE
    /\ pc' = "unwinding"
    /\ atGrant' = None
    /\ UNCHANGED <<impl, now, guards, scope, tasks, poisoned, queue, chan, received,
                   stderr, exited, rounds, endCalls, log, lastRead>>

\* `Err(e) => eprintln!("couldn't check timings: {}", e)`
Reader_report ==
    /\ ~exited /\ pc = "lockerr"
    /\ stderr' = Append(stderr, [msg |-> "couldn't check timings", name |-> None])
    /\ locked' = FALSE
    /\ pc' = "run"
    /\ atGrant' = None
    /\ UNCHANGED <<impl, now, guards, scope, tasks, poisoned, queue, chan, received,
                   exited, rounds, endCalls, log, lastRead>>

\* the instants Instant::now() may return: in these runs the clock is not seen
\* to advance, every reading returns the same instant
Instants == {now}

Next ==
    \/ \E o \in Owners, at \in Instants : Guard_new(o, at, NGuards)
    \/ \E g \in GuardIds, at \in Instants : DocTimer_end_call(g, at)
    \/ \E g \in GuardIds, at \in Instants : Timer_end_call(g, at)
    \/ \E g \in GuardIds, at \in Instants : MyTimer_drop(g, at)
    \/ \E g \in GuardIds, at \in Instants : DocTimer_drop(g, at)
    \/ \E g \in GuardIds, at \in Instants : Timer_drop(g, at)
    \/ Main_return
    \/ Main_loop
    \/ Main_recv
    \/ \E i \in TaskIds : Timer_queue_lock(i)
    \/ \E i \in TaskIds : Timer_queue_push(i)
    \/ \E i \in TaskIds : Timer_queue_report(i)
    \/ Reader_lock
    \/ Reader_iterate
    \/ Reader_panic
    \/ Holder_panic
    \/ Reader_report

Spec == Init /\ [][Next]_vars

\* ----- fair scheduling, the mutex never poisoned: the runs of the spawned-task
\* and the channel implementation in which nobody panics.  Every spawned
\* delivery thread keeps running, the reader lets go of the mutex, and main.rs's
\* main thread goes on through its scope into its receive loop.  Nothing makes
\* the measured threads or my_timer.rs's main thread take their next step.
FairInit == Init /\ impl \in {"example", "channel"}

FairNext ==
    \/ \E o \in Owners : Guard_new(o, now, NGuards)
    \/ \E g \in GuardIds : Timer_end_call(g, now)
    \/ \E g \in GuardIds : MyTimer_drop(g, now)
    \/ \E g \in GuardIds : Timer_drop(g, now)
    \/ Main_return
    \/ Main_loop
    \/ Main_recv
    \/ \E i \in TaskIds : Timer_queue_lock(i)
    \/ \E i \in TaskIds : Timer_queue_push(i)
    \/ Reader_lock
    \/ Reader_iterate

Main_drop == \E g \in GuardIds : guards[g].owner = "main" /\ Timer_drop(g, now)

Fairness ==
    /\ \A i \in 1..NGuards : WF_vars(Timer_queue_lock(i))
    /\ \A i \in 1..NGuards : WF_vars(Timer_queue_push(i))
    /\ WF_vars(Reader_iterate)
    /\ WF_vars(Main_drop)
    /\ WF_vars(Main_loop)
    /\ WF_vars(Main_recv)

FairSpec == FairInit /\ [][FairNext]_vars /\ Fairness

\* ----- examples/my_timer.rs as written: main creates the guards of its scope,
\* the scope ends, main sleeps, locks once, prints and returns
ScenarioInit == Init /\ impl = "example"

ScenarioNext ==
    \/ Guard_new("main", now, Len(ExampleNames))
    \/ \E g \in GuardIds : MyTimer_drop(g, now)
    \/ \E i \in TaskIds : Timer_queue_lock(i)
    \/ \E i \in TaskIds : Timer_queue_push(i)
    \/ Reader_lock
    \/ Reader_iterate
    \/ Main_return

ScenarioSpec == ScenarioInit /\ [][ScenarioNext]_vars

\* ----- timed runs of the spawned-task and the channel implementation: the
\* clock advances while threads sleep, between new and Drop and while a
\* delivery waits for the mutex.  A sleep is taken one tick of the clock at a
\* time (longer sleeps are several such steps), of which the thread asked for
\* the whole tick or for less
TimedInit == Init /\ impl \in {"example", "channel"}

TimedNext ==
    \/ \E o \in Owners : Guard_new(o, now, NGuards)
    \/ \E g \in 0..Len(guards), d \in {0, 1} : Sleep(g, d, 1)
    \/ \E g \in GuardIds : MyTimer_drop(g, now)
    \/ \E g \in GuardIds : Timer_drop(g, now)
    \/ \E i \in TaskIds : Timer_queue_lock(i)
    \/ \E i \in TaskIds : Timer_queue_push(i)

TimedSpec == TimedInit /\ [][TimedNext]_vars

\* ----- src/main.rs: the main thread creates guards labelled thread 1 .. thread 4
\* and drops them, other threads measure with a guard of their own, and main
\* goes into its receive loop
ChannelInit == Init /\ impl = "channel"

ChannelNext ==
    \/ \E o \in Owners : Guard_new(o, now, Len(ChannelNames))
    \/ \E g \in GuardIds : Timer_drop(g, now)
    \/ Main_loop
    \/ Main_recv

ChannelSpec == ChannelInit /\ [][ChannelNext]_vars

\* ----- what the claims speak of
\* the Timings in seq that guard g produced
Count(seq, g) == Cardinality({k \in DOMAIN seq : seq[k].id = g})

\* the deliveries guard g has initiated: spawned threads and channel sends
Attempts(g) ==
    Cardinality({i \in TaskIds : tasks[i].timing.id = g}) + Count(chan, g) + Count(received, g)

Finalized == {g \in GuardIds : guards[g].st = "dropped"}
InQueue == {i \in TaskIds : tasks[i].st \in {"Ok", "Err"}}
AllReturned == \A i \in TaskIds : tasks[i].st = "returned"

\* C1: no loss under concurrency.  With the spawned-task guards and the lock
\* not poisoned, the collector never holds more than one Timing of a guard and
\* none of a guard that was not finalized; once every delivery thread has
\* returned it holds exactly one Timing of every finalized guard.
C1_NoLoss ==
    (impl # "channel" /\ ~poisoned) =>
        /\ \A g \in GuardIds : Count(queue, g) <= 1
        /\ \A k \in DOMAIN queue : queue[k].id \in Finalized
        /\ AllReturned =>
              /\ \A g \in Finalized : Count(queue, g) = 1
              /\ Len(queue) = Cardinality(Finalized)

\* two guards of two measured threads, both finalized and both collected
C1_Witness ==
    /\ impl = "example" /\ ~poisoned /\ AllReturned
    /\ Len(queue) = NGuards
    /\ \A g \in GuardIds : guards[g].owner = "worker" /\ Count(queue, g) = 1

\* C2: poisoned-collector resilience.  A Timer::queue call that found the mutex
\* poisoned returns, having written one message naming its Timing, released the
\* mutex and left the stored sequence as it was.
C2_PoisonedQueue ==
    [][\A i \in TaskIds :
          /\ (tasks[i].st = "spawned" /\ tasks'[i].st # "spawned" /\ poisoned)
                => tasks'[i].st = "Err"
          /\ (tasks[i].st = "Err" /\ tasks'[i].st # "Err")
                => /\ tasks'[i].st = "returned"
                   /\ queue' = queue
                   /\ stderr' = Append(stderr, [msg |-> "couldn't queue",
                                                name |-> tasks[i].timing.name])
                   /\ ~locked']_vars

\* a delivery failed on the poisoned mutex and the process goes on
C2_Witness ==
    /\ poisoned /\ ~exited
    /\ \E i \in TaskIds :
          /\ tasks[i].st = "returned"
          /\ Count(queue, tasks[i].timing.id) = 0
          /\ \E k \in DOMAIN stderr :
                stderr[k] = [msg |-> "couldn't queue", name |-> tasks[i].timing.name]

\* C3: non-blocking finalization.  While the reader holds the lock, every
\* measured thread that is about to drop its guard can take that step, and
\* only the spawned delivery threads wait.
C3_NonBlockingDrop ==
    (impl = "example" /\ locked) =>
        /\ \A g \in GuardIds :
              (Droppable(g) /\ Running(guards[g].owner)) => ENABLED MyTimer_drop(g, now)
        /\ \A i \in TaskIds : tasks[i].st = "spawned" => ~ENABLED Timer_queue_lock(i)

\* the reader holds the lock, a guard was dropped and its delivery thread waits
C3_Witness ==
    /\ impl = "example" /\ pc = "reading"
    /\ \E i \in TaskIds : tasks[i].st = "spawned" /\ tasks[i].timing.id \in Finalized
    /\ \E g \in GuardIds : Droppable(g)

\* C4: exactly one finalization per guard.  In the spawned-task and the channel
\* implementation a guard that left its scope has initiated one delivery, a
\* live guard none; without explicit end() calls end ran once for the former
\* and never for the latter.
C4_OneFinalization ==
    impl \in {"example", "channel"} =>
        \A g \in GuardIds :
            /\ Attempts(g) = IF g \in Finalized THEN 1 ELSE 0
            /\ endCalls = 0 => guards[g].ends = IF g \in Finalized THEN 1 ELSE 0

\* one guard finalized and one still live, in either implementation
C4_Witness ==
    /\ impl \in {"example", "channel"}
    /\ \E g \in Finalized : Attempts(g) = 1
    /\ \E g \in GuardIds : guards[g].st = "live" /\ Attempts(g) = 0

\* C5: double finalization is a no-op.  With a take-once name (doc example,
\* main.rs), a guard whose end() already ran and whose Drop then ran end()
\* again has initiated no delivery in that Drop, and the Drop did not panic.
C5_DoubleFinalizationNoOp ==
    \A g \in GuardIds :
        (impl \in {"doc", "channel"} /\ guards[g].st # "live" /\ guards[g].ends >= 2) =>
            (Attempts(g) = 0 /\ guards[g].st # "panicked")

\* C6: name integrity.  Every Timing in the collector, in the channel or
\* received from it carries the name its guard was constructed with.
C6_NameIntegrity ==
    /\ \A k \in DOMAIN queue : queue[k].name = guards[queue[k].id].given
    /\ \A k \in DOMAIN chan : chan[k].name = Some(guards[chan[k].id].given)
    /\ \A k \in DOMAIN received : received[k].name = Some(guards[received[k].id].given)

\* C7: scope exit, then drain.  When main has created maggie, milly, molly and
\* may in one scope, left the scope, slept and holds the lock, the sequence it
\* reads holds one Timing of each of the four guards and those four names.
C7_ScopeThenDrain ==
    (/\ impl = "example" /\ pc = "reading"
     /\ Len(guards) = Len(ExampleNames)
     /\ \A g \in GuardIds : guards[g].owner = "main" /\ g \in Finalized)
    => /\ Len(queue) = Len(ExampleNames)
       /\ \A g \in GuardIds : Count(queue, g) = 1
       /\ {queue[k].name : k \in DOMAIN queue} = {ExampleNames[n] : n \in DOMAIN ExampleNames}

\* C8: idempotent, non-consuming drain.  An iteration over the locked queue
\* leaves the stored sequence as it was, and sees what the previous iteration
\* saw when no Timer::queue pushed in between.
C8_IdempotentDrain ==
    [][(pc = "reading" /\ pc' = "run") =>
          /\ queue' = queue
          /\ (lastRead # None /\ lastRead[1].pushes = Len(log)) => lastRead[1].view = queue
      ]_vars

\* the reader holds the lock for its next iteration, no push since the previous
\* one, over a collector that is not empty
C8_Witness ==
    /\ pc = "reading" /\ lastRead # None
    /\ lastRead[1].pushes = Len(log)
    /\ lastRead[1].view # <<>>

\* C9: consistent drain view.  At most one thread is inside the collector's
\* critical section, the mutex is held exactly then, and what the reader sees
\* while it holds the guard is the sequence of the Timings pushed before its
\* lock returned.
C9_ConsistentView ==
    /\ Cardinality(InQueue) + (IF pc \in {"reading", "lockerr"} THEN 1 ELSE 0)
          = IF locked THEN 1 ELSE 0
    /\ pc = "reading" => (atGrant # None /\ queue = atGrant[1])
    /\ queue = log

\* the reader holds a non-empty view while a delivery thread waits for the mutex
C9_Witness ==
    /\ pc = "reading" /\ queue # <<>>
    /\ \E i \in TaskIds : tasks[i].st = "spawned"

\* the Timing of guard g is in the collector, or main.rs's loop received it
Delivered(g) == Count(queue, g) >= 1 \/ Count(received, g) >= 1

GrantOf(t) == tasks[CHOOSE i \in TaskIds : tasks[i].timing = t].grant

\* C12: arrival order, append-only.  A step that changes the collector's
\* sequence appends one Timing at its end and leaves the entries before it as
\* they were, and the sequence is in the order in which the Timer::queue calls
\* acquired the mutex.
C12_ArrivalOrder ==
    /\ [](\A j, k \in DOMAIN queue : j < k => GrantOf(queue[j]) < GrantOf(queue[k]))
    /\ [][queue' # queue =>
             /\ Len(queue') = Len(queue) + 1
             /\ SubSeq(queue', 1, Len(queue)) = queue]_vars

\* two Timings collected in the order their deliveries took the mutex, which
\* is not the order in which their guards were finalized
C12_Witness ==
    /\ Len(queue) >= 2
    /\ guards[queue[1].id].fin > guards[queue[2].id].fin
    /\ GrantOf(queue[1]) < GrantOf(queue[2])

\* where the consumer received the Timing of guard g: 0 when it has not
Pos(g) == IF Count(received, g) = 0 THEN 0
          ELSE CHOOSE k \in DOMAIN received : received[k].id = g

\* C13: per-producer FIFO in the channel strategy.  When the main thread
\* finalized guard A before guard B and the consumer has received B's Timing,
\* it received A's Timing before it; when main dropped every guard before it
\* created the next, as main.rs does, the consumer receives thread 1,
\* thread 2, thread 3, thread 4 in that order.
C13_PerProducerFIFO ==
    impl = "channel" =>
        /\ \A a, b \in Finalized :
              (/\ guards[a].owner = "main" /\ guards[b].owner = "main"
               /\ guards[a].fin < guards[b].fin /\ Pos(b) > 0)
                 => (0 < Pos(a) /\ Pos(a) < Pos(b))
        /\ (\A g \in GuardIds : guards[g].owner = "main" /\ guards[g].fin \in {0, g})
              => \A k \in DOMAIN received : received[k].name = Some(ChannelNames[k])

\* main.rs's run: four guards created and dropped one after the other, all
\* four Timings received
C13_Witness ==
    /\ impl = "channel" /\ pc = "recv"
    /\ \A g \in GuardIds : guards[g].owner = "main" /\ guards[g].fin = g
    /\ Len(received) = Len(ChannelNames)
    /\ guards[1].name = None

\* every Timing there is: with a delivery thread, collected, sent or received
Timings ==
    {tasks[i].timing : i \in TaskIds} \cup {queue[k] : k \in DOMAIN queue}
        \cup {chan[k] : k \in DOMAIN chan} \cup {received[k] : k \in DOMAIN received}

\* C14: duration is fixed at finalization.  The duration of every Timing,
\* wherever it is, is the clock at its guard's Drop minus the begin that new
\* captured, is no less than the time the guard's thread slept between new and
\* Drop, and is not negative.
C14_DurationFixed ==
    \A t \in Timings :
        /\ t.duration = guards[t.id].finAt - guards[t.id].begin
        /\ t.duration >= guards[t.id].slept
        /\ t.duration >= 0

\* the collected Timing of a guard whose thread slept between new and Drop;
\* the clock has moved on since the Drop, and the duration is what it was
C14_Witness ==
    \E k \in DOMAIN queue :
        /\ guards[queue[k].id].slept >= 1
        /\ queue[k].duration >= 1
        /\ now > guards[queue[k].id].finAt

\* C15: a poisoned drain is caught, not propagated.  The reader's Timer::lock
\* on a poisoned mutex gives it the error; the reader then writes its message,
\* lets go of the mutex and goes on running, and from its lock() to there the
\* stored sequence stays as it was.
C15_PoisonedDrain ==
    [][/\ (pc = "run" /\ rounds' # rounds /\ poisoned) => pc' = "lockerr"
       /\ pc = "lockerr" => queue' = queue
       /\ (pc = "lockerr" /\ pc' # "lockerr") =>
             /\ pc' = "run" /\ ~exited' /\ ~locked'
             /\ stderr' = Append(stderr, [msg |-> "couldn't check timings", name |-> None])
      ]_vars

\* the reader met the poisoned mutex, reported it and runs on; what was
\* collected before is still there
C15_Witness ==
    /\ pc = "run" /\ poisoned /\ ~exited /\ ~locked
    /\ queue # <<>>
    /\ \E k \in DOMAIN stderr : stderr[k].msg = "couldn't check timings"

\* the steps a delivery thread takes through Timer::queue
TaskSteps == {<<"spawned", "Ok">>, <<"spawned", "Err">>, <<"Ok", "returned">>, <<"Err", "returned">>}

\* C16: each delivery thread is short-lived and leaves the lock free.  A
\* delivery thread goes from spawned through one lock() to returned, pushes at
\* most once and only after an Ok, and has released the mutex when it
\* returns; when neither the reader nor a delivery thread is inside the
\* critical section the mutex is free, and then a delivery thread that has not
\* returned can take its next step.
C16_ShortLivedTask ==
    /\ []((pc \notin {"reading", "lockerr"} /\ InQueue = {}) => ~locked)
    /\ [](\A i \in TaskIds :
            /\ Cardinality({k \in DOMAIN log : log[k] = tasks[i].timing})
                  <= IF tasks[i].st = "returned" /\ tasks[i].grant > 0 THEN 1 ELSE 0
            /\ (~exited /\ pc \notin {"reading", "lockerr"} /\ tasks[i].st # "returned")
                  => \E j \in TaskIds : \/ ENABLED Timer_queue_lock(j)
                                        \/ ENABLED Timer_queue_push(j)
                                        \/ ENABLED Timer_queue_report(j))
    /\ [][\A i \in TaskIds :
             tasks'[i].st # tasks[i].st =>
                /\ <<tasks[i].st, tasks'[i].st>> \in TaskSteps
                /\ tasks'[i].st = "returned" => ~locked'
                /\ tasks[i].st = "spawned" => (tasks[i].grant = 0 /\ tasks'[i].grant > 0)]_vars

\* both delivery threads of a run have returned, one after a push and one from
\* the poisoned mutex, and the mutex is free
C16_Witness ==
    /\ Len(tasks) >= 2 /\ AllReturned /\ ~locked /\ poisoned
    /\ Len(queue) >= 1 /\ Len(queue) < Len(tasks)

\* C17: the channel program's consumer loop never terminates.  main.rs's main
\* thread never returns and the process never ends; once in the loop it stays
\* there, and on an empty channel recv does not return.
C17_LoopNeverEnds ==
    /\ [](impl = "channel" => (~exited /\ pc \in {"run", "recv"}))
    /\ []((impl = "channel" /\ pc = "recv" /\ chan = <<>>) => ~ENABLED Main_recv)
    /\ [][(impl = "channel" /\ pc = "recv") => pc' = "recv"]_vars

\* main.rs's run after its four Timings were received: main sits in recv
C17_Witness ==
    /\ impl = "channel" /\ pc = "recv" /\ ~exited
    /\ chan = <<>> /\ Len(received) = Len(ChannelNames)
    /\ \A g \in GuardIds : g \in Finalized

\* C18: poisoning is permanent.  From a state with the mutex poisoned every
\* step leaves it poisoned and the stored sequence as it was; a Timer::queue
\* whose lock() returns gets the error, and so does the reader's Timer::lock.
C18_PoisonPermanent ==
    [][poisoned =>
          /\ poisoned'
          /\ queue' = queue
          /\ \A i \in TaskIds :
                (tasks[i].st = "spawned" /\ tasks'[i].st # "spawned") => tasks'[i].st = "Err"
          /\ rounds' # rounds => pc' = "lockerr"]_vars

\* after the poisoning the reader was refused and a guard's delivery was
\* refused and discarded, while an earlier Timing is still stored
C18_Witness ==
    /\ poisoned /\ queue # <<>>
    /\ \E k \in DOMAIN stderr : stderr[k].msg = "couldn't check timings"
    /\ \E i \in TaskIds :
          /\ tasks[i].st = "returned" /\ Count(queue, tasks[i].timing.id) = 0
          /\ guards[tasks[i].timing.id].fin > guards[queue[1].id].fin

\* C19: in the channel implementation a guard's send never fails and never
\* blocks.  Nothing was ever written by the `couldn't drop` arm, the Timing of
\* every guard whose Drop ran is in the channel or was received, and a guard
\* that is to be dropped can be dropped whatever the channel holds.
C19_SendNeverFails ==
    impl = "channel" =>
        /\ \A k \in DOMAIN stderr : stderr[k].msg # "couldn't drop"
        /\ \A g \in Finalized : Count(chan, g) + Count(received, g) = 1
        /\ \A g \in GuardIds :
              (Droppable(g) /\ Running(guards[g].owner)) => ENABLED Timer_drop(g, now)

\* every guard of the run was dropped and its Timing waits in the channel,
\* none received yet
C19_Witness ==
    /\ impl = "channel" /\ pc = "run"
    /\ Len(chan) = NGuards
    /\ \A g \in GuardIds : g \in Finalized

====
